---- MODULE Spec2Model ----
(***************************************************************************)
(* PhonePe dashboard: the data loader (st.cache_data memoisation around    *)
(* load_data_cached), the table resolvers, the filter sections and the KPI *)
(* sections of the pages, as state machines.                               *)
(*                                                                         *)
(* Strings that the code only compares are TLA+ strings; state labels,     *)
(* which the code rewrites character by character, are tuples of           *)
(* one-character strings.  A query 'SELECT * FROM t' is the record         *)
(* [tbl |-> t, semi |-> FALSE]; 'SELECT * FROM t;' has semi |-> TRUE (the  *)
(* two texts are distinct cache keys).                                     *)
(***************************************************************************)
EXTENDS Integers, Sequences, FiniteSets, TLC

VARIABLES
    cache,      \* the st.cache_data entries of every cached function
    store,      \* the relational store: its rows and a version stamp
    now,        \* the clock, in seconds
    last,       \* the most recent loader call and what it returned
    fetchLog,   \* per query text: the most recent store query executed
    pc,         \* position of the page script of the current request
    page,       \* the page being run
    tab,        \* selected_tab / data_type of the request
    toggle,     \* the 'Filter' toggle of the request
    chosen,     \* what select_the_table returned
    df,         \* the loaded table of the request
    sel,        \* the selection the widgets returned
    fdf,        \* filtered_df
    kpi,        \* the KPI bundle
    calls,      \* loader calls and store queries issued by the request
    err,        \* the exception that ended the script, "" if none
    msgs,       \* messages reported to the user (st.error / st.warning)
    config,     \* what get_config / get_column_config returned
    state_agg,  \* the state-wise breakdown of District Drill
    raw,        \* a raw state label handed to the name normaliser
    normed,     \* the label after the normalisations applied so far
    passes,     \* how many times the normaliser was applied to it
    value,      \* a number handed to the formatters
    shown       \* per formatter, the string it returned for value

loaderVars == <<cache, store, now, last, fetchLog>>
pageVars == <<pc, page, tab, toggle, chosen, df, sel, fdf, kpi, calls, err, msgs,
              config, state_agg>>
labelVars == <<raw, normed, passes>>
formatVars == <<value, shown>>
vars == <<cache, store, now, last, fetchLog,
          pc, page, tab, toggle, chosen, df, sel, fdf, kpi, calls, err, msgs,
          config, state_agg, raw, normed, passes, value, shown>>

(***************************************************************************)
(* Bounds.                                                                 *)
(***************************************************************************)
MaxRows == 2        \* rows of the store's tables
MaxTicks == 4       \* clock ticks of a run
MaxVer == 1         \* external rewrites of the store in a run
MaxWords == 4       \* words of a raw state label
MaxPasses == 2      \* applications of the name normaliser to one label
MaxExp == 9         \* decimal exponent of the numbers handed to the formatters
MaxValue == 2000000000  \* the greatest number handed to the formatters
MaxCalls == 2       \* loader calls counted in a run under the clock

TTL == 3600         \* ttl of every @st.cache_data in the repository

(***************************************************************************)
(* Python str methods used by the label normalisation.                     *)
(***************************************************************************)
LowerChars == <<"a","b","c","d","e","f","g","h","i","j","k","l","m",
                "n","o","p","q","r","s","t","u","v","w","x","y","z">>
UpperChars == <<"A","B","C","D","E","F","G","H","I","J","K","L","M",
                "N","O","P","Q","R","S","T","U","V","W","X","Y","Z">>

IsLower(c) == \E i \in 1..26 : LowerChars[i] = c
IsUpper(c) == \E i \in 1..26 : UpperChars[i] = c
IsCased(c) == IsLower(c) \/ IsUpper(c)
ToUpper(c) == IF IsLower(c)
              THEN UpperChars[CHOOSE i \in 1..26 : LowerChars[i] = c] ELSE c
ToLower(c) == IF IsUpper(c)
              THEN LowerChars[CHOOSE i \in 1..26 : UpperChars[i] = c] ELSE c

\* str.title(): a cased character is upper-cased when the character before
\* it is not cased, lower-cased otherwise.
Title(s) == [i \in 1..Len(s) |->
               IF i > 1 /\ IsCased(s[i-1]) THEN ToLower(s[i]) ELSE ToUpper(s[i])]

\* str.replace(old, new), old non-empty: leftmost non-overlapping matches.
RECURSIVE Replace(_, _, _)
Replace(s, old, new) ==
    IF Len(s) < Len(old) THEN s
    ELSE IF SubSeq(s, 1, Len(old)) = old
         THEN new \o Replace(SubSeq(s, Len(old) + 1, Len(s)), old, new)
         ELSE <<s[1]>> \o Replace(Tail(s), old, new)

Hyphen == <<"-">>
Space == <<" ">>
SpAndSp == <<" ", "A", "n", "d", " ">>
SpAmpSp == <<" ", "&", " ">>
AmpSp == <<"&", " ">>

\* utils/config.py standardize_state_name and the inline lambdas of the
\* Plotting, Mapping and Top Charts pages.
standardize_state_name(s) ==
    Replace(Title(Replace(s, Hyphen, Space)), SpAndSp, SpAmpSp)

\* the lambda of the load_*_state_data loaders, of the Phone Brands and
\* District Drill loaders and of the Visualizations page.
loader_state_name(s) ==
    Replace(Title(Replace(s, Hyphen, Space)), SpAndSp, AmpSp)

(***************************************************************************)
(* Tables.  A DataFrame is [cols, rows, ver, at]: the column names, the    *)
(* rows (functions from column name to value), and two ghost stamps: the   *)
(* store version it was read from and the time it was read.                *)
(***************************************************************************)
RawAB == <<"a", "-", "a", "n", "d", "-", "b">>
RawWB == <<"w", "-", "b">>

\* The rows the store can hold, by role; a dataset shows the roles its
\* schema has, under its own column names.
Pool == <<
    [st |-> RawAB, yr |-> 2022, qt |-> 1, ent |-> <<"e", "1">>, ety |-> "districts",
     br |-> <<"b", "1">>, tt |-> "t1", val |-> 100, cnt |-> 10],
    [st |-> RawAB, yr |-> 2023, qt |-> 1, ent |-> <<"e", "2">>, ety |-> "pincodes",
     br |-> <<"b", "2">>, tt |-> "t2", val |-> 150, cnt |-> 12],
    [st |-> RawWB, yr |-> 2021, qt |-> 2, ent |-> <<"e", "1">>, ety |-> "districts",
     br |-> <<"b", "1">>, tt |-> "t1", val |-> 150, cnt |-> 0],
    [st |-> RawWB, yr |-> 2022, qt |-> 2, ent |-> <<"e", "2">>, ety |-> "districts",
     br |-> <<"b", "2">>, tt |-> "t1", val |-> 0, cnt |-> 5] >>

PoolTables == UNION {[1..n -> 1..Len(Pool)] : n \in 0..MaxRows}

\* column name -> role
RoleOf(c) ==
    CASE c = "state" -> "st"
      [] c = "year" -> "yr"
      [] c = "quarter" -> "qt"
      [] c = "entity_name" -> "ent"
      [] c = "entity_type" -> "ety"
      [] c = "phone_brand" -> "br"
      [] c = "type_of_transaction" -> "tt"
      [] c \in {"amount", "total_amount", "total_transactions_amount",
                "registeredUsers", "registered_users"} -> "val"
      [] OTHER -> "cnt"

\* The columns of each table of the store, as the pages read them.
Schema(t) ==
    CASE t = "aggregated_transaction_state" ->
            {"state", "year", "quarter", "type_of_transaction",
             "number_of_transactions", "total_amount"}
      [] t = "aggregated_insurence_state" ->
            {"state", "year", "quarter", "number_of_transactions", "total_amount"}
      [] t = "agregated_user_state" ->
            {"state", "year", "quarter", "phone_brand", "phone_count",
             "registered_users", "Percentage"}
      [] t = "agregated_transaction_country" ->
            {"year", "quarter", "type_of_transaction", "count", "amount"}
      [] t = "aggregated_insurence_country" ->
            {"year", "quarter", "count", "amount"}
      [] t = "aggregated_user_counry" ->
            {"year", "quarter", "phone_brand", "phone_count", "registered_users"}
      [] t \in {"map_transaction_hover_state", "map_insurence_hover_state"} ->
            {"state", "year", "quarter", "total_transactions_amount",
             "total_transactions_count"}
      [] t = "map_user_hover_state" ->
            {"state", "year", "quarter", "registered_users"}
      [] t \in {"top_transaction_country", "top_insurence_country"} ->
            {"entity_type", "entity_name", "year", "quarter", "amount", "count"}
      [] t = "top_user_country" ->
            {"entity_type", "entity_name", "year", "quarter", "registeredUsers"}
      [] t \in {"top_transaction_state", "top_insurance_state"} ->
            {"state", "entity_type", "entity_name", "year", "quarter",
             "amount", "count"}
      [] t = "top_user_state" ->
            {"state", "entity_type", "entity_name", "year", "quarter",
             "registeredUsers"}
      [] OTHER -> {}

TableNames ==
    {"aggregated_transaction_state", "aggregated_insurence_state",
     "agregated_user_state", "agregated_transaction_country",
     "aggregated_insurence_country", "aggregated_user_counry",
     "map_transaction_hover_state", "map_insurence_hover_state",
     "map_user_hover_state", "top_transaction_country",
     "top_insurence_country", "top_user_country", "top_transaction_state",
     "top_insurance_state", "top_user_state"}

QueryOfText(t, semi) == [tbl |-> "Merchant Data", semi |-> semi]
Query(t, semi) == [tbl |-> t, semi |-> semi]

\* pd.DataFrame(): no columns, no rows.
EmptyFrame(t) == [cols |-> {}, rows |-> <<>>, ver |-> 0, at |-> t]

\* df.empty
IsEmpty(d) == d.cols = {} \/ d.rows = <<>>

\* pd.read_sql(query, engine) on a store that answers.
ReadSql(q) ==
    [cols |-> Schema(q.tbl),
     rows |-> [i \in 1..Len(store.rows) |->
                 [c \in Schema(q.tbl) |-> Pool[store.rows[i]][RoleOf(c)]]],
     ver |-> store.ver,
     at |-> now]

\* df['state'] = df['state'].apply(lambda x: ...): with spaced, the lambda
\* that writes ' & ' (standardize_state_name); otherwise the one that
\* writes '& '.
RewriteState(d, spaced) ==
    [d EXCEPT !.rows = [i \in 1..Len(d.rows) |->
                          [d.rows[i] EXCEPT !["state"] =
                              IF spaced THEN standardize_state_name(@)
                              ELSE loader_state_name(@)]]]

(***************************************************************************)
(* st.cache_data(ttl=3600): one entry per (function, arguments); an entry  *)
(* stored at time t is returned while the clock is before t + ttl and is   *)
(* treated as absent from then on.  A call that raises stores nothing.     *)
(***************************************************************************)
Queries == {Query(t, s) : t \in TableNames, s \in BOOLEAN}
NoArgs == Query("", FALSE)

Entry(fn, key, v, t) == [fn |-> fn, key |-> key, val |-> v, expires |-> t + TTL]

FreshLate(e, t) == t <= e.expires
Fresh(e, t) == t < e.expires

Hits(c, fn, key) == {e \in c : e.fn = fn /\ e.key = key /\ Fresh(e, now)}

Put(c, fn, key, v) ==
    {e \in c : ~(e.fn = fn /\ e.key = key)} \cup {Entry(fn, key, v, now)}

NoFetch == [has |-> FALSE, at |-> 0, ok |-> FALSE, df |-> EmptyFrame(0)]

\* The except branch of load_data_cached: st.error(...), return pd.DataFrame()
QueryFailedRaise == [df |-> EmptyFrame(now), errors |-> 0, raised |-> TRUE]
QueryFailed == [df |-> EmptyFrame(now), errors |-> 1, raised |-> FALSE]

\* load_data_cached(query); ok says whether the store answers this query.
\* L is the loader state [cache, log] the call starts from.
load_data_cached(L, q, ok) ==
    LET hit == Hits(L.cache, <<"config", "load_data_cached">>, q) IN
    IF hit # {}
    THEN [L |-> L, df |-> (CHOOSE e \in hit : TRUE).val,
          queries |-> 0, errors |-> 0, raised |-> FALSE]
    ELSE LET r == IF ok THEN [df |-> ReadSql(q), errors |-> 0, raised |-> FALSE]
                  ELSE QueryFailed
         IN [L |-> [cache |-> IF r.raised THEN L.cache
                              ELSE Put(L.cache, <<"config", "load_data_cached">>, q, r.df),
                    log |-> [L.log EXCEPT ![q] =
                               [has |-> TRUE, at |-> now, ok |-> ok, df |-> r.df]]],
             df |-> r.df, queries |-> 1, errors |-> r.errors, raised |-> r.raised]

\* The page-level wrapper load_data_from_db(query) of page pg:
\* @st.cache_data(ttl=3600) around load_data_cached(query).
load_data_from_db(pg, L, q, ok) ==
    LET hit == Hits(L.cache, <<pg, "load_data_from_db">>, q) IN
    IF hit # {}
    THEN [L |-> L, df |-> (CHOOSE e \in hit : TRUE).val,
          queries |-> 0, errors |-> 0, raised |-> FALSE]
    ELSE LET r == load_data_cached(L, q, ok) IN
         IF r.raised THEN r
         ELSE [r EXCEPT !.L.cache = Put(r.L.cache, <<pg, "load_data_from_db">>, q, r.df)]

\* The cached loaders without arguments: load_*_state_data of utils/config,
\* get_phone_brand_data, get_district_*_data.  Each loads one fixed query and
\* rewrites the state column when the table is not empty.
StateLoader(fn, L, q, ok) ==
    LET hit == Hits(L.cache, fn, NoArgs) IN
    IF hit # {}
    THEN [L |-> L, df |-> (CHOOSE e \in hit : TRUE).val,
          queries |-> 0, errors |-> 0, raised |-> FALSE]
    ELSE LET r == load_data_cached(L, q, ok)
             d == IF ~IsEmpty(r.df) THEN RewriteState(r.df, FALSE)
                  ELSE r.df
         IN IF r.raised THEN r
            ELSE [r EXCEPT !.df = d, !.L.cache = Put(r.L.cache, fn, NoArgs, d)]

\* load_insurance_state_data, load_transaction_state_data and
\* load_user_state_data of utils/config.
load_insurance_state_data(L, ok) ==
    StateLoader(<<"config", "load_insurance_state_data">>, L,
                Query("aggregated_insurence_state", FALSE), ok)

load_transaction_state_data(L, ok) ==
    StateLoader(<<"config", "load_transaction_state_data">>, L,
                Query("aggregated_transaction_state", FALSE), ok)

load_user_state_data(L, ok) ==
    StateLoader(<<"config", "load_user_state_data">>, L,
                Query("agregated_user_state", FALSE), ok)

\* load_top_transaction_data and load_top_insurance_data of utils/config:
\* @st.cache_data(ttl=3600) around load_data_cached of one fixed query, the
\* table returned as it is.
TopLoader(fn, L, q, ok) ==
    LET hit == Hits(L.cache, fn, NoArgs) IN
    IF hit # {}
    THEN [L |-> L, df |-> (CHOOSE e \in hit : TRUE).val,
          queries |-> 0, errors |-> 0, raised |-> FALSE]
    ELSE LET r == load_data_cached(L, q, ok) IN
         IF r.raised THEN r
         ELSE [r EXCEPT !.L.cache = Put(r.L.cache, fn, NoArgs, r.df)]

load_top_transaction_data(L, ok) ==
    TopLoader(<<"config", "load_top_transaction_data">>, L,
              Query("top_transaction_state", FALSE), ok)

load_top_insurance_data(L, ok) ==
    TopLoader(<<"config", "load_top_insurance_data">>, L,
              Query("top_insurance_state", FALSE), ok)

\* The list inspector.get_table_names() returns, read at time t; [] is the
\* list without names.
TableList(names, t) == [tables |-> names, at |-> t]

\* get_all_tables(): the names of the tables of the store, or st.error and
\* [] when the store does not answer; no query text is executed.
get_all_tables(L, ok) ==
    LET hit == Hits(L.cache, <<"config", "get_all_tables">>, NoArgs) IN
    IF hit # {}
    THEN [L |-> L, df |-> (CHOOSE e \in hit : TRUE).val,
          queries |-> 0, errors |-> 0, raised |-> FALSE]
    ELSE LET v == IF ok THEN TableList(TableNames, now) ELSE TableList({}, now)
         IN [L |-> [L EXCEPT !.cache = Put(L.cache, <<"config", "get_all_tables">>,
                                         NoArgs, v)],
             df |-> v, queries |-> 0, errors |-> IF ok THEN 0 ELSE 1,
             raised |-> FALSE]

get_phone_brand_data(L, ok) ==
    StateLoader(<<"Phone_Brands", "get_phone_brand_data">>, L,
                Query("agregated_user_state", FALSE), ok)

get_district_data(L, ok) ==
    StateLoader(<<"District_Drill", "get_district_data">>, L,
                Query("top_transaction_state", FALSE), ok)

get_district_insurance_data(L, ok) ==
    StateLoader(<<"District_Drill", "get_district_insurance_data">>, L,
                Query("top_insurance_state", FALSE), ok)

get_district_user_data(L, ok) ==
    StateLoader(<<"District_Drill", "get_district_user_data">>, L,
                Query("top_user_state", FALSE), ok)

\* The record kept of a loader call.
CallRecord(fn, q, r) ==
    [fn |-> fn, q |-> q, time |-> now, df |-> r.df, queries |-> r.queries,
     errors |-> r.errors, raised |-> r.raised, bit |-> 1 - last.bit,
     n |-> IF last.n < MaxCalls THEN last.n + 1 ELSE last.n]

NoCall ==
    [fn |-> "", q |-> NoArgs, time |-> 0, df |-> EmptyFrame(0), queries |-> 0,
     errors |-> 0, raised |-> FALSE, bit |-> 0, n |-> 0]

LoaderState == [cache |-> cache, log |-> fetchLog]

\* The string "N/A" of the KPI sections; labels are character tuples.
NA == <<"N", "/", "A">>

\* A growth percentage num/den; 0 is 0/1.
Zero == [num |-> 0, den |-> 1]

\* The formatters: format_currency and format_number of utils/config, and
\* the two functions of the same names that the Visualizations page defines
\* over them.
FormatFns == {"format_currency", "format_number",
              "visual_format_currency", "visual_format_number"}

\* No formatter called yet.
IdleFormat == value = 0 /\ shown = [f \in FormatFns |-> <<>>]

\* No state-wise breakdown computed: the aggregated columns, the display
\* labels in cols, and the rows (one tuple per state, in column order).
NoStateAgg == [columns |-> <<>>, cols |-> <<>>, rows |-> <<>>]

\* None, where a configuration is expected.
NoConfig == [value_col |-> "", count_col |-> "", has_count |-> FALSE,
             is_user |-> FALSE, label |-> ""]

\* A compound growth rate: "zero" is the number 0, "finite" is
\* ((num / den) ** (1 / root) - 1) * 100, "inf" and "nan" are the floats a
\* division by zero leaves.
ZeroRate == [kind |-> "zero", num |-> 0, den |-> 1, root |-> 1]

\* The KPI bundle before a KPI section ran: no field computed.
NoKpi == [fields |-> {}, total_value |-> 0, total_count |-> 0, top_entity |-> NA,
          top_entity_value |-> 0, yoy |-> Zero, average |-> Zero, qoq |-> Zero,
          cagr_amount |-> ZeroRate, cagr_count |-> ZeroRate]

(***************************************************************************)
(* The loader under a running clock: calls of load_data_cached and of two  *)
(* wrappers that share a query text, the clock, and the store being        *)
(* rewritten from outside.                                                 *)
(***************************************************************************)
IdlePage ==
    /\ pc = "idle" /\ page = "" /\ tab = "" /\ toggle = FALSE
    /\ chosen = [found |-> FALSE, q |-> NoArgs]
    /\ df = EmptyFrame(0) /\ fdf = EmptyFrame(0)
    /\ sel = [explicit |-> FALSE, years |-> {}, quarters |-> {}, states |-> {},
              brands |-> {}, types |-> {}, entity |-> ""]
    /\ kpi = NoKpi
    /\ calls = [loads |-> 0, queries |-> 0]
    /\ err = "" /\ msgs = {}
    /\ config = NoConfig
    /\ state_agg = NoStateAgg

\* The query text that the Plotting wrapper ('User State') and
\* get_phone_brand_data both hand to load_data_cached.
CacheQueries == {Query("agregated_user_state", FALSE)}

InitCache ==
    /\ cache = {}
    /\ store = [rows |-> [i \in 1..MaxRows |-> ((i - 1) % Len(Pool)) + 1], ver |-> 0]
    /\ now = 0
    /\ last = NoCall
    /\ fetchLog = [q \in Queries |-> NoFetch]
    /\ IdlePage
    /\ raw = <<>> /\ normed = <<>> /\ passes = 0
    /\ IdleFormat

\* The clock advances by a third of the window.  An entry that is expired at
\* the new time is never returned again, so it is dropped here.
Tick ==
    /\ now < MaxTicks * (TTL \div 3)
    /\ now' = now + TTL \div 3
    /\ cache' = {e \in cache : Fresh(e, now')}
    /\ UNCHANGED <<store, last, fetchLog>>
    /\ UNCHANGED pageVars
    /\ UNCHANGED labelVars
    /\ UNCHANGED formatVars

StoreRewrite ==
    /\ store.ver < MaxVer
    /\ store.rows # <<>>
    /\ store' = [rows |-> Tail(store.rows) \o <<Head(store.rows)>>,
                 ver |-> store.ver + 1]
    /\ UNCHANGED <<cache, now, last, fetchLog>>
    /\ UNCHANGED pageVars
    /\ UNCHANGED labelVars
    /\ UNCHANGED formatVars

Returned(fn, q, r) ==
    /\ cache' = r.L.cache
    /\ fetchLog' = r.L.log
    /\ last' = CallRecord(fn, q, r)
    /\ UNCHANGED <<store, now>>
    /\ UNCHANGED pageVars
    /\ UNCHANGED labelVars
    /\ UNCHANGED formatVars

CallLoadDataCached ==
    \E q \in CacheQueries, ok \in BOOLEAN :
        Returned("load_data_cached", q, load_data_cached(LoaderState, q, ok))

CallPlottingLoad ==
    \E q \in CacheQueries, ok \in BOOLEAN :
        Returned("load_data_from_db", q,
                 load_data_from_db("Plotting", LoaderState, q, ok))

CallPhoneBrands ==
    \E ok \in BOOLEAN :
        Returned("get_phone_brand_data", Query("agregated_user_state", FALSE),
                 get_phone_brand_data(LoaderState, ok))

CallLoadInsuranceStateData ==
    \E ok \in BOOLEAN :
        Returned("load_insurance_state_data", Query("aggregated_insurence_state", FALSE),
                 load_insurance_state_data(LoaderState, ok))

CallLoadTransactionStateData ==
    \E ok \in BOOLEAN :
        Returned("load_transaction_state_data",
                 Query("aggregated_transaction_state", FALSE),
                 load_transaction_state_data(LoaderState, ok))

CallLoadUserStateData ==
    \E ok \in BOOLEAN :
        Returned("load_user_state_data", Query("agregated_user_state", FALSE),
                 load_user_state_data(LoaderState, ok))

CallLoadTopTransactionData ==
    \E ok \in BOOLEAN :
        Returned("load_top_transaction_data", Query("top_transaction_state", FALSE),
                 load_top_transaction_data(LoaderState, ok))

CallLoadTopInsuranceData ==
    \E ok \in BOOLEAN :
        Returned("load_top_insurance_data", Query("top_insurance_state", FALSE),
                 load_top_insurance_data(LoaderState, ok))

CallGetAllTables ==
    \E ok \in BOOLEAN :
        Returned("get_all_tables", NoArgs, get_all_tables(LoaderState, ok))

\* Every cached loader of the repository under one clock, for runs of at
\* most MaxCalls calls.
NextCache ==
    \/ Tick
    \/ StoreRewrite
    \/ last.n < MaxCalls /\ CallLoadDataCached
    \/ last.n < MaxCalls /\ CallPlottingLoad
    \/ last.n < MaxCalls /\ CallPhoneBrands
    \/ last.n < MaxCalls /\ CallLoadInsuranceStateData
    \/ last.n < MaxCalls /\ CallLoadTransactionStateData
    \/ last.n < MaxCalls /\ CallLoadUserStateData
    \/ last.n < MaxCalls /\ CallLoadTopTransactionData
    \/ last.n < MaxCalls /\ CallLoadTopInsuranceData
    \/ last.n < MaxCalls /\ CallGetAllTables

SpecCache == InitCache /\ [][NextCache]_vars

\* The loaders of the query text 'SELECT * FROM agregated_user_state' under
\* the clock, for runs of any number of calls: load_data_cached and the three
\* cached functions around it.
NextWindow ==
    \/ Tick
    \/ StoreRewrite
    \/ CallLoadDataCached
    \/ CallPlottingLoad
    \/ CallPhoneBrands
    \/ CallLoadUserStateData

SpecWindow == InitCache /\ [][NextWindow]_vars

(***************************************************************************)
(* Resolvers and configurations of the pages.                              *)
(***************************************************************************)
NotFound == [found |-> FALSE, q |-> NoArgs]
Found(q) == [found |-> TRUE, q |-> q]

PlottingTabs == {"Transaction State", "Insurance State", "User State",
                 "Transaction Data", "Insurance Data", "User Data"}
MappingTabs == {"Transaction Data", "Insurance Data", "User Data"}
TopChartsTabs == {"Transaction Data", "Insurance Data", "User Data",
                  "Statewise Transaction", "Statewise Insurance", "Statewise User"}
DataTypes == {"Transactions", "Insurance", "Users"}

\* A category string that no lookup table has.
Unregistered == "Merchant Data"

\* Python's  word in selected_tab  for the words the pages test.
Contains(t, word) ==
    CASE word = "User" -> t \in {"User State", "User Data", "Statewise User"}
      [] word = "Insurance" ->
            t \in {"Insurance State", "Insurance Data", "Statewise Insurance"}
      [] word = "State" ->
            t \in {"Transaction State", "Insurance State", "User State",
                   "Statewise Transaction", "Statewise Insurance", "Statewise User"}
      [] word = "Statewise" ->
            t \in {"Statewise Transaction", "Statewise Insurance", "Statewise User"}
      [] OTHER -> FALSE

\* select_the_table of the three pages, followed by the query text the page
\* builds from it: tables.get(selected_tab, None).
select_the_table_misspelt(pg, t) ==
    CASE pg = "Plotting" ->
            (CASE t = "Transaction Data" -> Found(Query("agregated_transaction_country", FALSE))
               [] t = "Transaction State" -> Found(Query("aggregated_transaction_state", FALSE))
               [] t = "Insurance Data" -> Found(Query("aggregated_insurence_country", FALSE))
               [] t = "Insurance State" -> Found(Query("aggregated_insurence_state", FALSE))
               [] t = "User Data" -> Found(Query("aggregated_user_counry", FALSE))
               [] t = "User State" -> Found(Query("agregated_user_state", FALSE))
               [] OTHER -> NotFound)
      [] pg = "Mapping" ->
            (CASE t = "Transaction Data" -> Found(Query("map_transaction_hover_state", FALSE))
               [] t = "Insurance Data" -> Found(Query("map_insurence_hover_state", FALSE))
               [] t = "User Data" -> Found(Query("map_user_hover_state", FALSE))
               [] OTHER -> NotFound)
      [] pg = "Top_Charts" ->
            (CASE t = "Transaction Data" -> Found(Query("top_transaction_country", TRUE))
               [] t = "Insurance Data" -> Found(Query("top_insurence_country", TRUE))
               [] t = "User Data" -> Found(Query("top_user_country", TRUE))
               [] t = "Statewise Transaction" -> Found(Query("top_transaction_state", TRUE))
               [] t = "Statewise Insurance" -> Found(Query("top_insurance_state", TRUE))
               [] t = "Statewise Users" -> Found(Query("top_user_state", TRUE))
               [] OTHER -> NotFound)
      [] OTHER -> NotFound
select_the_table(pg, t) ==
    CASE pg = "Plotting" ->
            (CASE t = "Transaction Data" -> Found(Query("agregated_transaction_country", FALSE))
               [] t = "Transaction State" -> Found(Query("aggregated_transaction_state", FALSE))
               [] t = "Insurance Data" -> Found(Query("aggregated_insurence_country", FALSE))
               [] t = "Insurance State" -> Found(Query("aggregated_insurence_state", FALSE))
               [] t = "User Data" -> Found(Query("aggregated_user_counry", FALSE))
               [] t = "User State" -> Found(Query("agregated_user_state", FALSE))
               [] OTHER -> NotFound)
      [] pg = "Mapping" ->
            (CASE t = "Transaction Data" -> Found(Query("map_transaction_hover_state", FALSE))
               [] t = "Insurance Data" -> Found(Query("map_insurence_hover_state", FALSE))
               [] t = "User Data" -> Found(Query("map_user_hover_state", FALSE))
               [] OTHER -> NotFound)
      [] pg = "Top_Charts" ->
            (CASE t = "Transaction Data" -> Found(Query("top_transaction_country", TRUE))
               [] t = "Insurance Data" -> Found(Query("top_insurence_country", TRUE))
               [] t = "User Data" -> Found(Query("top_user_country", TRUE))
               [] t = "Statewise Transaction" -> Found(Query("top_transaction_state", TRUE))
               [] t = "Statewise Insurance" -> Found(Query("top_insurance_state", TRUE))
               [] t = "Statewise User" -> Found(Query("top_user_state", TRUE))
               [] OTHER -> NotFound)
      [] OTHER -> NotFound

\* The configuration of the request: get_config (Plotting, Top Charts),
\* get_column_config (Mapping), the data_type branches of District Drill and
\* the fixed columns of Visualizations and Phone Brands.  has_count says
\* whether the configuration has a 'count_col' key at all; label is the column
\* the top entity is taken from.
PageConfig(pg, t) ==
    CASE pg = "Plotting" ->
            IF Contains(t, "User")
            THEN [value_col |-> "phone_count", count_col |-> "", has_count |-> FALSE,
                  is_user |-> TRUE, label |-> "phone_brand"]
            ELSE [value_col |-> IF Contains(t, "State") THEN "total_amount" ELSE "amount",
                  count_col |-> IF Contains(t, "State") THEN "number_of_transactions"
                                ELSE "count",
                  has_count |-> TRUE, is_user |-> FALSE, label |-> "state"]
      [] pg = "Mapping" ->
            IF Contains(t, "User")
            THEN [value_col |-> "registered_users", count_col |-> "",
                  has_count |-> FALSE, is_user |-> TRUE, label |-> "state"]
            ELSE [value_col |-> "total_transactions_amount",
                  count_col |-> "total_transactions_count",
                  has_count |-> TRUE, is_user |-> FALSE, label |-> "state"]
      [] pg = "Top_Charts" ->
            IF Contains(t, "User")
            THEN [value_col |-> "registeredUsers", count_col |-> "count",
                  has_count |-> TRUE, is_user |-> TRUE, label |-> "entity_name"]
            ELSE [value_col |-> "amount", count_col |-> "count",
                  has_count |-> TRUE, is_user |-> FALSE, label |-> "entity_name"]
      [] pg = "District_Drill" ->
            [value_col |-> IF t = "Users" THEN "registeredUsers" ELSE "amount",
             count_col |-> "count", has_count |-> TRUE, is_user |-> (t = "Users"),
             label |-> "entity_name"]
      [] pg = "Phone_Brands" ->
            [value_col |-> "phone_count", count_col |-> "", has_count |-> FALSE,
             is_user |-> TRUE, label |-> "phone_brand"]
      [] OTHER ->
            [value_col |-> "total_amount", count_col |-> "number_of_transactions",
             has_count |-> TRUE, is_user |-> FALSE, label |-> "state"]

\* if chosen_table is None: st.warning(...); st.stop()
UnresolvedIgnored(c) == FALSE
Unresolved(c) == ~c.found

\* if df.empty: st.error(...); st.stop()     (pages that make the check)
ChecksEmpty(pg) == pg \in {"Plotting", "Mapping", "Top_Charts", "Phone_Brands",
                           "District_Drill"}

(***************************************************************************)
(* pandas operations the pages use.                                        *)
(***************************************************************************)
\* set(df[c].unique())
ColVals(d, c) == {d.rows[i][c] : i \in 1..Len(d.rows)}

\* df[df[c].isin(S)]
IsInNot(d, c, S) == [d EXCEPT !.rows = SelectSeq(d.rows, LAMBDA r : r[c] \notin S)]
IsIn(d, c, S) == [d EXCEPT !.rows = SelectSeq(d.rows, LAMBDA r : r[c] \in S)]

\* df[df[c] == v]
Equals(d, c, v) == [d EXCEPT !.rows = SelectSeq(d.rows, LAMBDA r : r[c] = v)]

\* df[c].sum()
RECURSIVE SumSeq(_, _)
SumSeq(rows, c) == IF rows = <<>> THEN 0 ELSE Head(rows)[c] + SumSeq(Tail(rows), c)
Sum(d, c) == SumSeq(d.rows, c)

\* df.groupby(by)[c].sum(), at key k
GroupSum(d, by, c, k) == Sum(Equals(d, by, k), c)

MaxOf(S) == CHOOSE x \in S : \A y \in S : y <= x

\* Ordering of labels: Python compares strings by code point.
CharOrder == <<" ", "&", "-", "/", "0", "1", "2", "3", "4", "5", "6", "7", "8", "9">>
             \o UpperChars \o LowerChars
Code(c) == CHOOSE i \in 1..Len(CharOrder) : CharOrder[i] = c

RECURSIVE StrLess(_, _)
StrLess(a, b) ==
    IF b = <<>> THEN FALSE
    ELSE IF a = <<>> THEN TRUE
    ELSE IF a[1] = b[1] THEN StrLess(Tail(a), Tail(b))
    ELSE Code(a[1]) < Code(b[1])

\* groupby(by)[c].sum().max()
GroupMin(d, by, c) ==
    LET sums == {GroupSum(d, by, c, k) : k \in ColVals(d, by)}
    IN CHOOSE x \in sums : \A y \in sums : x <= y
GroupMax(d, by, c) == MaxOf({GroupSum(d, by, c, k) : k \in ColVals(d, by)})

\* groupby(by)[c].sum().idxmax(): groups are in sorted key order and the
\* first maximum wins.
IdxMax(d, by, c) ==
    LET best == {k \in ColVals(d, by) : GroupSum(d, by, c, k) = GroupMax(d, by, c)}
    IN CHOOSE k \in best : \A k2 \in best : k2 = k \/ StrLess(k, k2)

\* Year-over-year growth of the Visualizations page.
YoYUnguarded(d, c) ==
    LET ys == ColVals(d, "year") IN
    IF Cardinality(ys) >= 2
    THEN LET latest == GroupSum(d, "year", c, MaxOf(ys))
             previous == GroupSum(d, "year", c, MaxOf(ys \ {MaxOf(ys)}))
         IN [num |-> (latest - previous) * 100, den |-> previous]
    ELSE Zero
YoY(d, c) ==
    LET ys == ColVals(d, "year") IN
    IF Cardinality(ys) >= 2
    THEN LET latest == GroupSum(d, "year", c, MaxOf(ys))
             previous == GroupSum(d, "year", c, MaxOf(ys \ {MaxOf(ys)}))
         IN IF previous > 0 THEN [num |-> (latest - previous) * 100, den |-> previous]
            ELSE Zero
    ELSE Zero

\* total / count if count > 0 else 0
AverageUnguarded(total, count) == [num |-> total, den |-> count]
Average(total, count) == IF count > 0 THEN [num |-> total, den |-> count] ELSE Zero

MinOf(S) == CHOOSE x \in S : \A y \in S : x <= y

\* Compound annual growth rate of the Visualizations page, over yearly_trend
\* (one row per year, ascending): the first year's sum divides, whatever it
\* is, and numpy division by zero gives inf, or nan for 0 / 0.
Cagr(d, c) ==
    LET ys == ColVals(d, "year") IN
    IF Cardinality(ys) >= 2
    THEN LET first == GroupSum(d, "year", c, MinOf(ys))
             final == GroupSum(d, "year", c, MaxOf(ys))
         IN IF first = 0
            THEN [ZeroRate EXCEPT !.kind = IF final = 0 THEN "nan" ELSE "inf"]
            ELSE [kind |-> "finite", num |-> final, den |-> first,
                  root |-> Cardinality(ys) - 1]
    ELSE ZeroRate

\* quarterly_trend: the (year, quarter) periods present, ascending.
Periods(d) == {<<d.rows[i]["year"], d.rows[i]["quarter"]>> : i \in 1..Len(d.rows)}
PeriodLessByQuarter(p, q) == p[2] < q[2] \/ (p[2] = q[2] /\ p[1] < q[1])
PeriodLess(p, q) == p[1] < q[1] \/ (p[1] = q[1] /\ p[2] < q[2])
LastPeriod(S) == CHOOSE p \in S : \A q \in S : q = p \/ PeriodLess(q, p)
PeriodSum(d, c, p) ==
    SumSeq(SelectSeq(d.rows, LAMBDA r : r["year"] = p[1] /\ r["quarter"] = p[2]), c)

\* Quarter-over-quarter growth of the Visualizations page.
QoQ(d, c) ==
    LET ps == Periods(d) IN
    IF Cardinality(ps) >= 2
    THEN LET latest == PeriodSum(d, c, LastPeriod(ps))
             previous == PeriodSum(d, c, LastPeriod(ps \ {LastPeriod(ps)}))
         IN IF previous > 0 THEN [num |-> (latest - previous) * 100, den |-> previous]
            ELSE Zero
    ELSE Zero

(***************************************************************************)
(* The filter sections.                                                    *)
(***************************************************************************)
NoSel == [explicit |-> FALSE, years |-> {}, quarters |-> {}, states |-> {},
          brands |-> {}, types |-> {}, entity |-> ""]

\* The pages whose filter widgets are drawn only when the toggle is on.
Toggled(pg) == pg \in {"Plotting", "Mapping", "Top_Charts"}

\* Whether the filter section of the request runs at all.
FilterShown(pg, tg) == IF Toggled(pg) THEN tg ELSE pg # "Visualizations"

\* sorted(df['entity_type'].unique())
EntityOrder == <<"districts", "pincodes", "states">>
FirstEntity(S) ==
    EntityOrder[CHOOSE i \in 1..Len(EntityOrder) :
                  /\ EntityOrder[i] \in S
                  /\ \A j \in 1..(i - 1) : EntityOrder[j] \notin S]

\* default= of the year multiselect
DefaultYearsMax(pg, d) == {MaxOf(ColVals(d, "year"))}
DefaultYears(pg, d) ==
    LET ys == ColVals(d, "year") IN
    IF pg = "Phone_Brands"
    THEN IF Cardinality(ys) >= 2 THEN {MaxOf(ys), MaxOf(ys \ {MaxOf(ys)})} ELSE ys
    ELSE IF ys # {} THEN {MaxOf(ys)} ELSE {}

\* default index of the 'Entity Type' selectbox
DefaultEntity(pg, d) ==
    IF pg = "Top_Charts"
    THEN IF "entity_type" \in d.cols THEN FirstEntity(ColVals(d, "entity_type")) ELSE ""
    ELSE IF pg = "District_Drill"
    THEN IF "entity_type" \in d.cols THEN d.rows[1]["entity_type"] ELSE "districts"
    ELSE ""

\* What the widgets return when the user touches none of them.
Defaults(pg, d) ==
    [explicit |-> FALSE, years |-> DefaultYears(pg, d),
     quarters |-> ColVals(d, "quarter"), states |-> {}, brands |-> {},
     types |-> {}, entity |-> DefaultEntity(pg, d)]

YearQuarter(d, s) == IsIn(IsIn(d, "year", s.years), "quarter", s.quarters)

\* if selected: filtered_df = filtered_df[filtered_df[c].isin(selected)]
IfAnyAlways(d, c, S) == IsIn(d, c, S)
IfAny(d, c, S) == IF S # {} THEN IsIn(d, c, S) ELSE d

\* The Plotting page's third column: states, or brands when there is no state.
PlottingLabel(d, s) ==
    IF "state" \in d.cols THEN IfAny(d, "state", s.states)
    ELSE IF "phone_brand" \in d.cols THEN IfAny(d, "phone_brand", s.brands)
    ELSE d

\* Every selection the widgets of the page can return on table d.
Widgets(pg, d) ==
    {Defaults(pg, d)} \cup
    {[explicit |-> TRUE, years |-> ys, quarters |-> qs, states |-> ss,
      brands |-> bs, types |-> ts, entity |-> en] :
        ys \in SUBSET ColVals(d, "year"),
        qs \in SUBSET ColVals(d, "quarter"),
        ss \in (IF "state" \notin d.cols THEN {{}}
                ELSE IF pg = "District_Drill"
                THEN {{}} \cup {{x} : x \in ColVals(d, "state")}
                ELSE SUBSET ColVals(d, "state")),
        bs \in (IF pg = "Plotting" /\ "state" \notin d.cols /\ "phone_brand" \in d.cols
                THEN SUBSET ColVals(d, "phone_brand") ELSE {{}}),
        ts \in (IF pg = "Plotting" /\ "type_of_transaction" \in d.cols
                THEN SUBSET ColVals(d, "type_of_transaction") ELSE {{}}),
        en \in (IF pg \in {"Top_Charts", "District_Drill"} /\ "entity_type" \in d.cols
                THEN ColVals(d, "entity_type") ELSE {DefaultEntity(pg, d)})}

\* A multiselect offers the values of the table it was built from: on the
\* Plotting page the state, brand and type options come from the table already
\* cut down by the widgets before them.
Offered(pg, d, s) ==
    IF pg # "Plotting" THEN TRUE
    ELSE /\ s.states \subseteq (IF "state" \in d.cols
                                THEN ColVals(YearQuarter(d, s), "state") ELSE {})
         /\ s.brands \subseteq (IF "phone_brand" \in d.cols
                                THEN ColVals(YearQuarter(d, s), "phone_brand") ELSE {})
         /\ s.types \subseteq (IF "type_of_transaction" \in d.cols
                               THEN ColVals(PlottingLabel(YearQuarter(d, s), s),
                                            "type_of_transaction")
                               ELSE {})

\* filtered_df of the page, from the loaded table and the selection.
ApplyFilter(pg, d, tg, s) ==
    IF ~FilterShown(pg, tg) THEN d
    ELSE CASE pg = "Plotting" ->
                LET lab == PlottingLabel(YearQuarter(d, s), s) IN
                IF "type_of_transaction" \in d.cols
                THEN IfAny(lab, "type_of_transaction", s.types) ELSE lab
           [] pg = "Top_Charts" ->
                LET yq == YearQuarter(d, s)
                    en == IF s.entity # "" /\ "entity_type" \in d.cols
                          THEN Equals(yq, "entity_type", s.entity) ELSE yq
                IN IF s.states # {} /\ "state" \in d.cols
                   THEN IsIn(en, "state", s.states) ELSE en
           [] pg = "District_Drill" ->
                LET yq == YearQuarter(d, s)
                    st == IF s.states # {} THEN IsIn(yq, "state", s.states) ELSE yq
                IN IF "entity_type" \in d.cols
                   THEN Equals(st, "entity_type", s.entity) ELSE st
           [] OTHER -> IfAny(YearQuarter(d, s), "state", s.states)

(***************************************************************************)
(* The KPI sections.  fields names the KPIs the page computes.             *)
(***************************************************************************)
\* df[c].sum() if c in df.columns else 0
SumIfPresent(d, c) == IF c \in d.cols THEN Sum(d, c) ELSE 0

\* The District Drill columns: value_col falls back to 'count' when the
\* chosen table lacks the value column.
DistrictValueCol(t, d) ==
    IF t = "Users" THEN (IF "registeredUsers" \in d.cols THEN "registeredUsers" ELSE "count")
    ELSE IF t = "Insurance" THEN (IF "amount" \in d.cols THEN "amount" ELSE "count")
    ELSE "amount"

ValueCol(pg, t, d) ==
    IF pg = "District_Drill" THEN DistrictValueCol(t, d) ELSE PageConfig(pg, t).value_col

\* idxmax() if len(totals) > 0 else "N/A"
TopLabelNoDefault(d, by, c) == IF ColVals(d, by) # {} THEN IdxMax(d, by, c) ELSE <<>>
TopLabel(d, by, c) == IF ColVals(d, by) # {} THEN IdxMax(d, by, c) ELSE NA

\* max() if len(totals) > 0 else 0
TopValue(d, by, c) == IF ColVals(d, by) # {} THEN GroupMax(d, by, c) ELSE 0

Kpi(pg, t, d) ==
    LET cfg == PageConfig(pg, t)
        vc == ValueCol(pg, t, d)
    IN CASE pg = "Visualizations" ->
              [fields |-> {"total_value", "total_count", "average", "top_entity",
                           "top_entity_value", "yoy", "qoq", "cagr_amount",
                           "cagr_count"},
               total_value |-> Sum(d, "total_amount"),
               total_count |-> Sum(d, "number_of_transactions"),
               average |-> Average(Sum(d, "total_amount"),
                                   Sum(d, "number_of_transactions")),
               top_entity |-> TopLabel(d, "state", "total_amount"),
               top_entity_value |-> TopValue(d, "state", "total_amount"),
               yoy |-> YoY(d, "total_amount"),
               qoq |-> QoQ(d, "total_amount"),
               cagr_amount |-> Cagr(d, "total_amount"),
               cagr_count |-> Cagr(d, "number_of_transactions")]
         [] pg = "Plotting" ->
              IF cfg.is_user
              THEN [NoKpi EXCEPT
                      !.fields = {"total_value", "top_entity"},
                      !.total_value = SumIfPresent(d, "phone_count"),
                      !.top_entity =
                          IF "phone_brand" \in d.cols /\ "phone_count" \in d.cols
                          THEN TopLabel(d, "phone_brand", "phone_count") ELSE NA]
              ELSE [NoKpi EXCEPT
                      !.fields = {"total_value", "total_count", "average",
                                  "top_entity"},
                      !.total_value = SumIfPresent(d, vc),
                      !.total_count = SumIfPresent(d, cfg.count_col),
                      !.average = Average(SumIfPresent(d, vc),
                                          SumIfPresent(d, cfg.count_col)),
                      !.top_entity =
                          IF "state" \in d.cols THEN TopLabel(d, "state", vc) ELSE NA]
         [] pg = "Mapping" ->
              [NoKpi EXCEPT
                 !.fields = {"total_value", "total_count", "top_entity",
                             "top_entity_value"},
                 !.total_value = Sum(d, vc),
                 !.total_count = IF cfg.has_count THEN SumIfPresent(d, cfg.count_col)
                                 ELSE Sum(d, vc),
                 !.top_entity = TopLabel(d, "state", vc),
                 !.top_entity_value = TopValue(d, "state", vc)]
         [] pg = "Phone_Brands" ->
              [NoKpi EXCEPT
                 !.fields = {"total_value", "top_entity"},
                 !.total_value = SumIfPresent(d, "phone_count"),
                 !.top_entity =
                     IF "phone_brand" \in d.cols /\ "phone_count" \in d.cols
                     THEN TopLabel(d, "phone_brand", "phone_count") ELSE NA]
         [] OTHER ->    \* Top Charts and District Drill
              [NoKpi EXCEPT
                 !.fields = {"total_value", "total_count", "top_entity",
                             "top_entity_value"},
                 !.total_value = SumIfPresent(d, vc),
                 !.total_count = SumIfPresent(d, cfg.count_col),
                 !.top_entity =
                     IF "entity_name" \in d.cols /\ vc \in d.cols
                     THEN TopLabel(d, "entity_name", vc) ELSE NA,
                 !.top_entity_value =
                     IF "entity_name" \in d.cols /\ vc \in d.cols
                     THEN TopValue(d, "entity_name", vc) ELSE 0]

\* groupby(...).agg({value_col: 'sum', count_col: 'sum'}) names a column the
\* table must have.  The per-state and per-entity aggregations of Top Charts
\* name count_col unconditionally; District Drill adds it to the dictionary
\* only when the table has it.
AggNamesCount(pg, t, d) ==
    /\ pg = "Top_Charts"
    /\ \/ Contains(t, "Statewise") /\ "state" \in d.cols
       \/ "entity_name" \in d.cols /\ PageConfig(pg, t).value_col \in d.cols

\* agg_dict[k] = 'sum': a key the dictionary has keeps its place.
DictSet(keys, k) ==
    IF \E i \in 1..Len(keys) : keys[i] = k THEN keys ELSE Append(keys, k)

\* sorted(S) for a set of labels
RECURSIVE SortedLabels(_)
SortedLabels(S) ==
    IF S = {} THEN <<>>
    ELSE LET k == CHOOSE x \in S : \A y \in S : y = x \/ StrLess(x, y)
         IN <<k>> \o SortedLabels(S \ {k})

\* df[c].nunique() within the group by = k
NUnique(d, by, k, c) == Cardinality(ColVals(Equals(d, by, k), c))

\* f'{selected_entity.title()} Count'
EntityCountLabel(e) ==
    CASE e = "districts" -> "Districts Count"
      [] e = "pincodes" -> "Pincodes Count"
      [] e = "states" -> "States Count"
      [] OTHER -> "Count"

\* sort_values(column, ascending=False): rows with equal values keep their
\* order.
RECURSIVE SortDescending(_, _)
SortDescending(rows, c) ==
    IF rows = <<>> THEN <<>>
    ELSE LET i == CHOOSE i \in 1..Len(rows) :
                    /\ \A j \in 1..Len(rows) : rows[j][c] <= rows[i][c]
                    /\ \A j \in 1..(i - 1) : rows[j][c] < rows[i][c]
         IN <<rows[i]>> \o
            SortDescending(SubSeq(rows, 1, i - 1) \o SubSeq(rows, i + 1, Len(rows)), c)

\* The state-wise breakdown of District Drill, before the labels are
\* assigned: groupby('state').agg(agg_dict).reset_index() has the column
\* 'state' and then one column per key of agg_dict, in the order of the keys;
\* cols is the list of display labels.
StateAgg(t, entity, d) ==
    LET value_col == DistrictValueCol(t, d)
        count_col == "count"
        agg_dict == IF count_col \in d.cols
                    THEN DictSet(<<value_col, "entity_name">>, count_col)
                    ELSE <<value_col, "entity_name">>
        states == SortedLabels(ColVals(d, "state"))
        Cell(k, c) == IF c = "entity_name" THEN NUnique(d, "state", k, c)
                      ELSE GroupSum(d, "state", c, k)
    IN [columns |-> <<"state">> \o agg_dict,
        cols |-> <<"State", IF t # "Users" THEN "Total Amount" ELSE "Total Users">>
                 \o (IF count_col \in d.cols THEN <<"Transaction Count">> ELSE <<>>)
                 \o <<EntityCountLabel(entity)>>,
        rows |-> [i \in 1..Len(states) |->
                    <<states[i]>> \o
                    [j \in 1..Len(agg_dict) |-> Cell(states[i], agg_dict[j])]]]

\* The detailed table of District Drill writes the formatted strings of
\* value_col into display_df and then applies format_number to count_col:
\* when the two are one column, format_number gets a string, and its
\* comparison with 1e9 raises.
FormattedTwice(t, d) == "count" \in d.cols /\ DistrictValueCol(t, d) = "count"

\* selected_entity.title()[:-1] if selected_entity.endswith('s')
EntitySingular(e) ==
    CASE e = "districts" -> "District"
      [] e = "pincodes" -> "Pincode"
      [] e = "states" -> "State"
      [] OTHER -> e

\* The detailed table of District Drill: the columns of entity_agg and the
\* labels assigned to display_df.columns.
EntityAgg(t, entity, d) ==
    LET value_col == DistrictValueCol(t, d)
        count_col == "count"
        agg_dict == IF count_col \in d.cols THEN DictSet(<<value_col>>, count_col)
                    ELSE <<value_col>>
    IN [columns |-> <<"entity_name">> \o agg_dict,
        cols |-> <<EntitySingular(entity), IF t # "Users" THEN "Amount" ELSE "Users">>
                 \o (IF \E i \in 1..Len(agg_dict) : agg_dict[i] = count_col
                     THEN <<"Transactions">> ELSE <<>>)]

\* The market-share aggregation of Phone Brands:
\* groupby('phone_brand').agg({'phone_count': 'sum', 'Percentage': 'mean'})
\* names the column 'Percentage', which the table must have.
AggNamesPercentage(pg, d) ==
    pg = "Phone_Brands" /\ "phone_brand" \in d.cols /\ "phone_count" \in d.cols

(***************************************************************************)
(* One run of a page script.                                               *)
(***************************************************************************)
Requests ==
    {<<"Visualizations", "">>, <<"Phone_Brands", "">>}
    \cup {<<"Plotting", t>> : t \in PlottingTabs \cup {Unregistered}}
    \cup {<<"Mapping", t>> : t \in MappingTabs \cup {Unregistered}}
    \cup {<<"Top_Charts", t>> : t \in TopChartsTabs \cup {Unregistered}}
    \cup {<<"District_Drill", t>> : t \in DataTypes}

HasResolver(pg) == pg \in {"Plotting", "Mapping", "Top_Charts"}

InitPage ==
    /\ cache = {}
    /\ store \in {[rows |-> t, ver |-> 0] : t \in PoolTables}
    /\ now = 0
    /\ last = NoCall
    /\ fetchLog = [q \in Queries |-> NoFetch]
    /\ pc = "start"
    /\ \E rq \in Requests : page = rq[1] /\ tab = rq[2]
    /\ toggle \in (IF Toggled(page) THEN BOOLEAN ELSE {FALSE})
    /\ chosen = NotFound
    /\ df = EmptyFrame(0) /\ fdf = EmptyFrame(0)
    /\ sel = NoSel
    /\ kpi = NoKpi
    /\ calls = [loads |-> 0, queries |-> 0]
    /\ err = "" /\ msgs = {}
    /\ config = NoConfig
    /\ state_agg = NoStateAgg
    /\ raw = <<>> /\ normed = <<>> /\ passes = 0
    /\ IdleFormat

\* chosen_table = select_the_table(selected_tab);
\* config = get_config(selected_tab); the None check.
Resolve ==
    /\ pc = "start" /\ HasResolver(page)
    /\ chosen' = select_the_table(page, tab)
    /\ config' = PageConfig(page, tab)
    /\ IF Unresolved(chosen')
       THEN /\ msgs' = msgs \cup {"Please select a valid data category."}
            /\ pc' = "stopped"
       ELSE /\ pc' = "resolved"
            /\ UNCHANGED msgs
    /\ UNCHANGED <<page, tab, toggle, df, sel, fdf, kpi, calls, err, state_agg>>
    /\ UNCHANGED loaderVars
    /\ UNCHANGED labelVars
    /\ UNCHANGED formatVars

\* What the script does with the table the loader returned: the df.empty
\* check where the page has one, then the rewrite of the state column.
AfterLoad(d, inline) ==
    IF ChecksEmpty(page) /\ IsEmpty(d)
    THEN /\ msgs' = msgs \cup {"No data available."}
         /\ pc' = "stopped"
         /\ df' = d
         /\ UNCHANGED err
    ELSE IF inline = "always" /\ "state" \notin d.cols
    THEN /\ pc' = "raised"
         /\ err' = "KeyError"
         /\ df' = d
         /\ UNCHANGED msgs
    ELSE /\ pc' = "loaded"
         /\ df' = IF inline = "never" \/ "state" \notin d.cols THEN d
                  ELSE IF page = "Visualizations"
                  THEN RewriteState(d, FALSE)
                  ELSE RewriteState(d, TRUE)
         /\ UNCHANGED <<msgs, err>>

\* The load section of the pages that load one table.
Load ==
    /\ \/ pc = "resolved"
       \/ pc = "start" /\ page \in {"Visualizations", "Phone_Brands"}
    /\ \E ok \in BOOLEAN :
         LET r == CASE page = "Visualizations" ->
                        load_data_from_db(page, LoaderState,
                                          Query("aggregated_insurence_state", TRUE), ok)
                    [] page = "Phone_Brands" -> get_phone_brand_data(LoaderState, ok)
                    [] OTHER -> load_data_from_db(page, LoaderState, chosen.q, ok)
         IN /\ cache' = r.L.cache
            /\ fetchLog' = r.L.log
            /\ last' = CallRecord("load", chosen.q, r)
            /\ calls' = [loads |-> calls.loads + 1, queries |-> calls.queries + r.queries]
            /\ AfterLoad(r.df, CASE page \in {"Visualizations", "Mapping"} -> "always"
                                 [] page = "Phone_Brands" -> "never"
                                 [] OTHER -> "if present")
    /\ UNCHANGED <<page, tab, toggle, chosen, sel, fdf, kpi, config, state_agg>>
    /\ UNCHANGED <<store, now>>
    /\ UNCHANGED labelVars
    /\ UNCHANGED formatVars

\* The load section of District Drill: three loaders, the empty check on the
\* transaction table, then the table of the selected data type, with the
\* transaction table standing in for an empty insurance or user table.
LoadDistrict ==
    /\ pc = "start" /\ page = "District_Drill"
    /\ \E ok1 \in BOOLEAN, ok2 \in BOOLEAN, ok3 \in BOOLEAN :
         LET r1 == get_district_data(LoaderState, ok1)
             r2 == get_district_insurance_data(r1.L, ok2)
             r3 == get_district_user_data(r2.L, ok3)
             d == IF tab = "Transactions" THEN r1.df
                  ELSE IF tab = "Insurance"
                  THEN (IF ~IsEmpty(r2.df) THEN r2.df ELSE r1.df)
                  ELSE (IF ~IsEmpty(r3.df) THEN r3.df ELSE r1.df)
         IN /\ cache' = r3.L.cache
            /\ fetchLog' = r3.L.log
            /\ last' = CallRecord("load", Query("top_user_state", FALSE), r3)
            /\ calls' = [loads |-> calls.loads + 3,
                         queries |-> calls.queries + r1.queries + r2.queries + r3.queries]
            /\ AfterLoad(IF IsEmpty(r1.df) THEN r1.df ELSE d, "never")
    /\ UNCHANGED <<page, tab, toggle, chosen, sel, fdf, kpi, config, state_agg>>
    /\ UNCHANGED <<store, now>>
    /\ UNCHANGED labelVars
    /\ UNCHANGED formatVars

\* The filter section: the widgets return a selection, filtered_df is cut.
Filter ==
    /\ pc = "loaded"
    /\ \E s \in (IF FilterShown(page, toggle) THEN Widgets(page, df) ELSE {NoSel}) :
         /\ Offered(page, df, s)
         /\ sel' = s
         /\ fdf' = ApplyFilter(page, df, toggle, s)
    /\ pc' = "filtered"
    /\ UNCHANGED <<page, tab, toggle, chosen, df, kpi, calls, err, msgs, config,
                   state_agg>>
    /\ UNCHANGED loaderVars
    /\ UNCHANGED labelVars
    /\ UNCHANGED formatVars

\* The KPI section.
ComputeKpi ==
    /\ pc = "filtered"
    /\ kpi' = Kpi(page, tab, fdf)
    /\ pc' = "kpi"
    /\ UNCHANGED <<page, tab, toggle, chosen, df, sel, fdf, calls, err, msgs, config,
                   state_agg>>
    /\ UNCHANGED loaderVars
    /\ UNCHANGED labelVars
    /\ UNCHANGED formatVars

\* The aggregations below the KPI cards.  On District Drill: the state-wise
\* breakdown when 'All States' is selected, then the detailed table; each
\* assigns a list of labels to the columns of a frame, which raises when the
\* two lengths differ.
Aggregate ==
    /\ pc = "kpi"
    /\ IF AggNamesCount(page, tab, fdf) /\ PageConfig(page, tab).count_col \notin fdf.cols
       THEN pc' = "raised" /\ err' = "KeyError" /\ UNCHANGED state_agg
       ELSE IF AggNamesPercentage(page, fdf) /\ "Percentage" \notin fdf.cols
       THEN pc' = "raised" /\ err' = "KeyError" /\ UNCHANGED state_agg
       ELSE IF page = "District_Drill"
       THEN LET a == StateAgg(tab, sel.entity, fdf)
                e == EntityAgg(tab, sel.entity, fdf)
            IN IF sel.states = {} /\ Len(a.cols) # Len(a.columns)
               THEN pc' = "raised" /\ err' = "ValueError" /\ state_agg' = a
               ELSE /\ state_agg' = IF sel.states = {}
                                    THEN [a EXCEPT !.rows = SortDescending(a.rows, 2)]
                                    ELSE state_agg
                    /\ IF FormattedTwice(tab, fdf) /\ fdf.rows # <<>>
                       THEN pc' = "raised" /\ err' = "TypeError"
                       ELSE IF Len(e.cols) # Len(e.columns)
                       THEN pc' = "raised" /\ err' = "ValueError"
                       ELSE pc' = "done" /\ UNCHANGED err
       ELSE pc' = "done" /\ UNCHANGED <<err, state_agg>>
    /\ UNCHANGED <<page, tab, toggle, chosen, df, sel, fdf, kpi, calls, msgs, config>>
    /\ UNCHANGED loaderVars
    /\ UNCHANGED labelVars
    /\ UNCHANGED formatVars

NextPage ==
    \/ Resolve
    \/ Load
    \/ LoadDistrict
    \/ Filter
    \/ ComputeKpi
    \/ Aggregate

SpecPage == InitPage /\ [][NextPage]_vars

(***************************************************************************)
(* The name normaliser applied to raw labels: words in lower, upper or     *)
(* mixed case joined by hyphens or spaces.                                 *)
(***************************************************************************)
Words == {<<"a">>, <<"a", "n", "d">>, <<"A", "N", "D">>, <<"w", "B">>}
Seps == {Hyphen, Space}

RECURSIVE LabelsOf(_)
LabelsOf(n) ==
    IF n = 1 THEN Words
    ELSE {l \o sep \o w : l \in LabelsOf(n - 1), sep \in Seps, w \in Words}

Labels == UNION {LabelsOf(n) : n \in 1..MaxWords}

InitLabel ==
    /\ IdleFormat
    /\ raw \in Labels
    /\ normed = raw
    /\ passes = 0
    /\ cache = {}
    /\ store = [rows |-> <<>>, ver |-> 0]
    /\ now = 0
    /\ last = NoCall
    /\ fetchLog = [q \in Queries |-> NoFetch]
    /\ IdlePage

\* standardize_state_name applied to what it returned before
Normalize ==
    /\ passes < MaxPasses
    /\ normed' = standardize_state_name(normed)
    /\ passes' = passes + 1
    /\ UNCHANGED raw
    /\ UNCHANGED loaderVars
    /\ UNCHANGED pageVars
    /\ UNCHANGED formatVars

NextLabel == Normalize

SpecLabel == InitLabel /\ [][NextLabel]_vars

(***************************************************************************)
(* The number formatters.  A formatted string is a tuple of one-character  *)
(* strings.  The numbers are non-negative integers m * 10^k; none of them  *)
(* lies exactly halfway between two printed values, where the digit        *)
(* printed depends on the binary value of the quotient.                    *)
(***************************************************************************)
E9 == 1000000000
E7 == 10000000
E5 == 100000
E3 == 1000

Rupee == "₹"
DigitChars == <<"0", "1", "2", "3", "4", "5", "6", "7", "8", "9">>

\* the decimal digits of n
RECURSIVE Digits(_)
Digits(n) ==
    IF n < 10 THEN <<DigitChars[n + 1]>>
    ELSE Digits(n \div 10) \o <<DigitChars[(n % 10) + 1]>>

Pad2Unpadded(n) == Digits(n)
Pad2(n) == <<DigitChars[(n \div 10) + 1], DigitChars[(n % 10) + 1]>>
Pad3(n) == <<DigitChars[(n \div 100) + 1]>> \o Pad2(n % 100)

\* f"{n:,}": groups of three digits separated by commas
RECURSIVE Grouped(_)
Grouped(n) ==
    IF n < 1000 THEN Digits(n)
    ELSE Grouped(n \div 1000) \o <<",">> \o Pad3(n % 1000)

\* v / unit rounded to two decimals is exactly halfway between two values
IsTie(v, unit) == 2 * (v % (unit \div 100)) = unit \div 100

\* f"{v/unit:.2f}": the quotient rounded to the nearest hundredth
Fixed2(v, unit) ==
    LET u == unit \div 100
        h == (v \div u) + (IF 2 * (v % u) > u THEN 1 ELSE 0)
    IN Digits(h \div 100) \o <<".">> \o Pad2(h % 100)

\* f"{v:,.2f}" and f"{v:,.0f}" of an integer v
Plain2(v) == Grouped(v) \o <<".", "0", "0">>
Plain0(v) == Grouped(v)

\* utils/config.py format_currency(value, use_indian_system=True)
format_currency(v, use_indian_system) ==
    IF v >= E9
    THEN IF ~use_indian_system THEN <<Rupee>> \o Fixed2(v, E9) \o <<"B">>
         ELSE <<Rupee>> \o Fixed2(v, E7) \o <<"C", "r">>
    ELSE IF v >= E7 THEN <<Rupee>> \o Fixed2(v, E7) \o <<"C", "r">>
    ELSE IF v >= E5 THEN <<Rupee>> \o Fixed2(v, E5) \o <<"L">>
    ELSE IF v >= E3 THEN <<Rupee>> \o Fixed2(v, E3) \o <<"K">>
    ELSE <<Rupee>> \o Plain2(v)

\* utils/config.py format_number(value)
format_number(v) ==
    IF v >= E9 THEN Fixed2(v, E9) \o <<"B">>
    ELSE IF v >= E7 THEN Fixed2(v, E7) \o <<"C", "r">>
    ELSE IF v >= E5 THEN Fixed2(v, E5) \o <<"L">>
    ELSE IF v >= E3 THEN Fixed2(v, E3) \o <<"K">>
    ELSE Plain0(v)

\* pages/0_visual.py format_currency(value)
visual_format_currency(v) ==
    IF v >= E9 THEN <<Rupee>> \o Fixed2(v, E9) \o <<"B">>
    ELSE IF v >= E7 THEN <<Rupee>> \o Fixed2(v, E7) \o <<"C", "r">>
    ELSE IF v >= E5 THEN <<Rupee>> \o Fixed2(v, E5) \o <<"L">>
    ELSE <<Rupee>> \o Plain2(v)

\* pages/0_visual.py format_number(value)
visual_format_number(v) ==
    IF v >= E9 THEN Fixed2(v, E9) \o <<"B">>
    ELSE IF v >= E7 THEN Fixed2(v, E7) \o <<"C", "r">>
    ELSE IF v >= E5 THEN Fixed2(v, E5) \o <<"L">>
    ELSE Plain0(v)

\* The numbers handed to the formatters: m * 10^k up to MaxValue.
Mantissas == {0, 1, 15, 999, 123456}

RECURSIVE Scaled(_, _)
Scaled(m, k) ==
    IF k = 0 THEN m
    ELSE IF m > MaxValue \div 10 THEN 0
    ELSE Scaled(m * 10, k - 1)

FormatInputs ==
    {v \in {Scaled(m, k) : m \in Mantissas, k \in 0..MaxExp} :
        \A unit \in {E9, E7, E5, E3} : ~IsTie(v, unit)}

InitFormat ==
    /\ value \in FormatInputs
    /\ shown = [f \in FormatFns |-> <<>>]
    /\ cache = {}
    /\ store = [rows |-> <<>>, ver |-> 0]
    /\ now = 0
    /\ last = NoCall
    /\ fetchLog = [q \in Queries |-> NoFetch]
    /\ IdlePage
    /\ raw = <<>> /\ normed = <<>> /\ passes = 0

Formatted(f, text) ==
    /\ shown[f] = <<>>
    /\ shown' = [shown EXCEPT ![f] = text]
    /\ UNCHANGED value
    /\ UNCHANGED loaderVars
    /\ UNCHANGED pageVars
    /\ UNCHANGED labelVars

\* format_currency(value), as every page calls it: use_indian_system omitted
CallFormatCurrency == Formatted("format_currency", format_currency(value, TRUE))

CallFormatNumber == Formatted("format_number", format_number(value))

CallVisualFormatCurrency ==
    Formatted("visual_format_currency", visual_format_currency(value))

CallVisualFormatNumber ==
    Formatted("visual_format_number", visual_format_number(value))

NextFormat ==
    \/ CallFormatCurrency
    \/ CallFormatNumber
    \/ CallVisualFormatCurrency
    \/ CallVisualFormatNumber

SpecFormat == InitFormat /\ [][NextFormat]_vars

(***************************************************************************)
(* Properties of the loader (SpecCache).                                   *)
(***************************************************************************)
FailedFetch == last.queries = 1 /\ fetchLog[last.q].has /\ ~fetchLog[last.q].ok

\* C2: load_data_cached never raises; when the store query of a call fails,
\* the call reports one error and returns the empty table.
C2_LoadNeverRaises ==
    /\ ~last.raised
    /\ FailedFetch => (IsEmpty(last.df) /\ last.df.cols = {} /\ last.errors = 1)

C2_Witness ==
    /\ last.fn = "load_data_cached"
    /\ FailedFetch
    /\ IsEmpty(last.df)

\* C4: the table a load call returns was read from the store at most 3600
\* seconds before the call returned, through the page-level wrappers too.
C4_ReturnedWithinWindow ==
    last.fn # "" => last.time - last.df.at <= TTL

\* C5: a load_data_cached(q) call made less than 3600 seconds after a
\* successful store query of q executes no store query and returns the table
\* that query fetched; a call made 3600 seconds or more after the last store
\* query of q executes the store query again.
C5_OneQueryPerWindow ==
    [][(last'.bit # last.bit /\ last'.fn = "load_data_cached") =>
         LET f == fetchLog[last'.q] IN
         /\ (f.has /\ f.ok /\ now - f.at < TTL) =>
                (last'.queries = 0 /\ last'.df = f.df)
         /\ (f.has /\ now - f.at >= TTL) => last'.queries = 1]_vars

C5_Witness ==
    /\ last.fn = "load_data_cached"
    /\ last.queries = 0
    /\ fetchLog[last.q].ok
    /\ last.time > fetchLog[last.q].at
    /\ last.time - fetchLog[last.q].at < TTL
    /\ store.ver > last.df.ver

(***************************************************************************)
(* Properties of a page run (SpecPage).                                    *)
(***************************************************************************)
\* C1: when select_the_table returns no dataset for the selected category,
\* the script halts and the request executes no load call and no store query.
C1_NoLoadWhenUnresolved ==
    (HasResolver(page) /\ pc # "start" /\ ~select_the_table(page, tab).found) =>
        (pc = "stopped" /\ calls.loads = 0 /\ calls.queries = 0 /\ cache = {})

C1_Witness ==
    /\ HasResolver(page) /\ tab = Unregistered
    /\ pc = "stopped" /\ calls.loads = 0
    /\ "Please select a valid data category." \in msgs

SomeFetchFailed == \E q \in Queries : fetchLog[q].has /\ ~fetchLog[q].ok

\* C3: after a load failed and returned the empty table, the page finishes
\* the request without raising, on the Visualizations page too.
C3_EmptyLoadNeverRaises ==
    SomeFetchFailed => pc # "raised"

\* The rows of the loaded table in filtered_df.
Kept(i) == \E j \in 1..Len(fdf.rows) : fdf.rows[j] = df.rows[i]

\* Membership of a row in the selection of one dimension, as the claim has
\* it: an empty selected set does not constrain.
InOrEmpty(r, c, S) == (c \in df.cols /\ S # {}) => r[c] \in S

EntityMatches(r) ==
    ("entity_type" \in df.cols /\ sel.entity # "") => r["entity_type"] = sel.entity

\* C6 as stated: a row is kept exactly when, for every dimension with a
\* non-empty selected set, its value is a member of the set.
C6_Original ==
    (pc = "filtered" /\ FilterShown(page, toggle)) =>
        fdf.rows = SelectSeq(df.rows, LAMBDA r :
                       /\ InOrEmpty(r, "year", sel.years)
                       /\ InOrEmpty(r, "quarter", sel.quarters)
                       /\ InOrEmpty(r, "state", sel.states)
                       /\ InOrEmpty(r, "phone_brand", sel.brands)
                       /\ InOrEmpty(r, "type_of_transaction", sel.types)
                       /\ EntityMatches(r))

\* C6 (amended): filtered_df is the loaded table's rows, in order, that have
\* their year in the selected years and their quarter in the selected
\* quarters (an empty year or quarter selection keeps no row), their state,
\* brand and transaction type in the selected set when that set is not empty,
\* and the selected entity type; when the filter section does not run,
\* filtered_df is the loaded table.
C6_FilterKeepsExactly ==
    pc = "filtered" =>
        IF FilterShown(page, toggle)
        THEN fdf.rows = SelectSeq(df.rows, LAMBDA r :
                            /\ r["year"] \in sel.years
                            /\ r["quarter"] \in sel.quarters
                            /\ InOrEmpty(r, "state", sel.states)
                            /\ InOrEmpty(r, "phone_brand", sel.brands)
                            /\ InOrEmpty(r, "type_of_transaction", sel.types)
                            /\ EntityMatches(r))
        ELSE fdf.rows = df.rows

C6_Witness ==
    /\ pc = "filtered" /\ page = "Plotting" /\ toggle
    /\ sel.states # {} /\ sel.types # {}
    /\ Len(df.rows) > Len(fdf.rows) /\ fdf.rows # <<>>

\* A row passes the dimensions other than dim, as the code applies them.
PassesOthers(r, dim) ==
    /\ dim = "year" \/ r["year"] \in sel.years
    /\ dim = "quarter" \/ r["quarter"] \in sel.quarters
    /\ dim = "state" \/ InOrEmpty(r, "state", sel.states)
    /\ dim = "phone_brand" \/ InOrEmpty(r, "phone_brand", sel.brands)
    /\ dim = "type_of_transaction" \/ InOrEmpty(r, "type_of_transaction", sel.types)
    /\ EntityMatches(r)

SelOf(dim) ==
    CASE dim = "year" -> sel.years
      [] dim = "quarter" -> sel.quarters
      [] dim = "state" -> sel.states
      [] dim = "phone_brand" -> sel.brands
      [] OTHER -> sel.types

ExcludesNothing(dim) ==
    \A i \in 1..Len(df.rows) : PassesOthers(df.rows[i], dim) => Kept(i)

\* C7 as stated: an empty selection excludes no row on its dimension's
\* account, for year and quarter as for state, brand and transaction type.
C7_Original ==
    (pc = "filtered" /\ FilterShown(page, toggle)) =>
        \A dim \in {"year", "quarter", "state", "phone_brand", "type_of_transaction"} :
            (dim \in df.cols /\ SelOf(dim) = {}) => ExcludesNothing(dim)

\* C7 (amended): an empty selection of states, brands or transaction types
\* excludes no row on that dimension's account; an empty selection of years
\* or of quarters excludes every row.
C7_EmptySelection ==
    (pc = "filtered" /\ FilterShown(page, toggle)) =>
        /\ \A dim \in {"state", "phone_brand", "type_of_transaction"} :
              (dim \in df.cols /\ SelOf(dim) = {}) => ExcludesNothing(dim)
        /\ (sel.years = {} \/ sel.quarters = {}) => fdf.rows = <<>>

C7_Witness ==
    /\ pc = "filtered" /\ FilterShown(page, toggle)
    /\ sel.explicit /\ sel.states = {} /\ sel.years # {} /\ sel.quarters # {}
    /\ Len(fdf.rows) = 2
    /\ fdf.rows[1]["state"] # fdf.rows[2]["state"]

Filtering(pg) == pg \in {"Plotting", "Mapping", "Top_Charts", "Phone_Brands",
                         "District_Drill"}

\* C8 as stated: with no explicit choice the rows kept are those of the
\* maximum year present, of any quarter, state, brand and type, on every
\* filtering page and whether or not the toggle is on.
C8_Original ==
    (pc = "filtered" /\ Filtering(page) /\ ~sel.explicit) =>
        fdf.rows = SelectSeq(df.rows, LAMBDA r :
                       r["year"] = MaxOf(ColVals(df, "year")))

\* The greatest n values of a set.
Greatest(S, n) == {y \in S : Cardinality({z \in S : z > y}) < n}

\* The entity type the 'Entity Type' selectbox shows first.
FirstShown(e) ==
    IF "entity_type" \notin df.cols THEN TRUE
    ELSE IF page = "District_Drill" THEN e = df.rows[1]["entity_type"]
    ELSE /\ e \in ColVals(df, "entity_type")
         /\ \A i, j \in 1..Len(EntityOrder) :
               (EntityOrder[i] = e /\ EntityOrder[j] \in ColVals(df, "entity_type"))
                   => i <= j

\* C8 (amended): with no explicit choice, a page whose filter section runs
\* (Plotting, Mapping and Top Charts with the toggle on, District Drill and
\* Phone Brands always) applies year = {the maximum year present}, on Phone
\* Brands year = {the two greatest years present}, quarter = {all quarters
\* present}, no constraint on state, brand or type, and on Top Charts and
\* District Drill the entity type the selectbox shows first; with the toggle
\* off Plotting, Mapping and Top Charts apply no selection at all.
C8_DefaultSelection ==
    (pc = "filtered" /\ Filtering(page) /\ ~sel.explicit) =>
        IF FilterShown(page, toggle)
        THEN /\ sel.years = Greatest(ColVals(df, "year"),
                                     IF page = "Phone_Brands" THEN 2 ELSE 1)
             /\ sel.quarters = ColVals(df, "quarter")
             /\ sel.states = {} /\ sel.brands = {} /\ sel.types = {}
             /\ page \in {"Top_Charts", "District_Drill"} => FirstShown(sel.entity)
             /\ fdf.rows = SelectSeq(df.rows, LAMBDA r :
                               /\ r["year"] \in sel.years
                               /\ EntityMatches(r))
        ELSE fdf.rows = df.rows

C8_Witness ==
    /\ pc = "filtered" /\ page = "Phone_Brands" /\ ~sel.explicit
    /\ Cardinality(sel.years) = 2
    /\ Len(fdf.rows) = 2

\* C9: when filtered_df has no row, the KPI section returns and every KPI it
\* computes is neutral: totals 0, top entity "N/A", top entity value 0, and
\* every growth metric 0: year over year, quarter over quarter, and the
\* compound annual growth rates of the amount and of the count.
C9_EmptyTableNeutralKpis ==
    (pc \in {"kpi", "done", "raised"} /\ kpi.fields # {} /\ fdf.rows = <<>>) =>
        /\ {"total_value", "top_entity"} \subseteq kpi.fields
        /\ kpi.total_value = 0
        /\ kpi.total_count = 0
        /\ kpi.top_entity = NA
        /\ kpi.top_entity_value = 0
        /\ kpi.yoy = Zero
        /\ kpi.qoq = Zero
        /\ kpi.cagr_amount = ZeroRate
        /\ kpi.cagr_count = ZeroRate

\* the Visualizations page has computed its KPIs, the growth metrics among
\* them, on a table that has its columns and no row
C9_Witness ==
    /\ pc = "kpi" /\ page = "Visualizations"
    /\ fdf.cols # {} /\ fdf.rows = <<>>
    /\ {"total_count", "top_entity_value", "yoy", "qoq", "cagr_amount",
        "cagr_count"} \subseteq kpi.fields
    /\ kpi.top_entity = NA

\* C10: when the table has no count column, every computation of the page
\* completes without a failure, the per-state and per-entity aggregations of
\* Top Charts included, and Top Charts shows a total count of 0.
C10_MissingCountColumn ==
    (Filtering(page) /\ pc \in {"kpi", "done", "raised"}
       /\ PageConfig(page, tab).has_count
       /\ PageConfig(page, tab).count_col \notin fdf.cols) =>
        /\ pc # "raised"
        /\ kpi.total_count = 0

\* C11: for a category name that no lookup table of the page has,
\* get_config / get_column_config yields no configuration.
C11_NoSilentDefault ==
    (HasResolver(page) /\ pc # "start" /\ ~chosen.found) => config = NoConfig

(***************************************************************************)
(* Properties of the name normaliser (SpecLabel).                          *)
(***************************************************************************)
\* C12: state-label normalisation is idempotent: normalising a normalised
\* label returns it unchanged, for every raw label.
C12_NormalizeIdempotent ==
    passes = 2 => normed = standardize_state_name(raw)

(***************************************************************************)
(* Properties of a page run (SpecPage), continued.                         *)
(***************************************************************************)
\* C13: on every page, the state label of each row of the loaded table is
\* the raw label of the store with '-' replaced by ' ', title-cased and with
\* ' And ' replaced by ' & '.
C13_SameLabelEverywhere ==
    (pc \in {"loaded", "filtered", "kpi", "done"} /\ "state" \in df.cols) =>
        \A i \in 1..Len(df.rows) :
            df.rows[i]["state"] = standardize_state_name(Pool[store.rows[i]].st)

\* The sum of column c over the rows of filtered_df, 0 when the table has
\* no such column.
SumOver(c) == IF c \in fdf.cols THEN SumSeq(fdf.rows, c) ELSE 0

\* C14: total_value is the sum of the value column over the rows of
\* filtered_df; total_count is the sum of the count column over them when the
\* category has a count column and is 0 otherwise, for the user category of
\* the Mapping page too.
C14_Totals ==
    (pc \in {"kpi", "done", "raised"} /\ "total_value" \in kpi.fields) =>
        /\ kpi.total_value = SumOver(ValueCol(page, tab, fdf))
        /\ kpi.total_count = IF PageConfig(page, tab).has_count
                             THEN SumOver(PageConfig(page, tab).count_col)
                             ELSE 0

\* C15: the average KPI is the total value divided by the total count when
\* the total count is greater than 0 and is 0 otherwise; the division never
\* has a zero divisor.
C15_Average ==
    (pc \in {"kpi", "done", "raised"} /\ "average" \in kpi.fields) =>
        LET tv == SumOver(ValueCol(page, tab, fdf))
            tc == SumOver(PageConfig(page, tab).count_col)
        IN /\ kpi.average.den # 0
           /\ IF tc > 0 THEN kpi.average.num * tc = tv * kpi.average.den
              ELSE kpi.average.num = 0

C15_Witness ==
    /\ pc = "kpi" /\ page = "Plotting" /\ "average" \in kpi.fields
    /\ Len(fdf.rows) = 2
    /\ kpi.total_count > 0
    /\ kpi.average = [num |-> kpi.total_value, den |-> kpi.total_count]
    /\ kpi.average.num > kpi.average.den

\* The labels of filtered_df that the top entity is chosen among, and the sum
\* of the value column over the rows of one label.
TopLabels ==
    IF PageConfig(page, tab).label \in fdf.cols /\ ValueCol(page, tab, fdf) \in fdf.cols
    THEN {fdf.rows[i][PageConfig(page, tab).label] : i \in 1..Len(fdf.rows)}
    ELSE {}

LabelSum(k) ==
    SumSeq(SelectSeq(fdf.rows, LAMBDA r : r[PageConfig(page, tab).label] = k),
           ValueCol(page, tab, fdf))

\* C16: top_entity is a label of filtered_df whose sum of the value column is
\* greatest among the labels and top_entity_value is that sum; with no label
\* at all, top_entity is "N/A" and top_entity_value is 0.
C16_TopEntity ==
    (pc \in {"kpi", "done", "raised"} /\ "top_entity" \in kpi.fields) =>
        IF TopLabels = {}
        THEN kpi.top_entity = NA /\ kpi.top_entity_value = 0
        ELSE /\ kpi.top_entity \in TopLabels
             /\ \A k \in TopLabels : LabelSum(k) <= LabelSum(kpi.top_entity)
             /\ "top_entity_value" \in kpi.fields =>
                    kpi.top_entity_value = LabelSum(kpi.top_entity)

C16_Witness ==
    /\ pc = "kpi" /\ page = "Top_Charts"
    /\ Len(fdf.rows) = 2
    /\ Cardinality(TopLabels) = 2
    /\ \E k \in TopLabels : 0 < LabelSum(k) /\ LabelSum(k) < LabelSum(kpi.top_entity)
    /\ kpi.top_entity_value = LabelSum(kpi.top_entity)

\* The sum of column c over the rows of filtered_df of year y.
YearSum(c, y) == SumSeq(SelectSeq(fdf.rows, LAMBDA r : r["year"] = y), c)

YearsPresent == {fdf.rows[i]["year"] : i \in 1..Len(fdf.rows)}

\* C17: year-over-year growth is 0 with fewer than 2 distinct years; with 2
\* or more it is (latest - previous) / previous * 100, latest and previous
\* being the value sums of the greatest and the next greatest year, when
\* previous > 0, and 0 when previous is not > 0.
C17_YoY ==
    (pc \in {"kpi", "done", "raised"} /\ "yoy" \in kpi.fields) =>
        /\ kpi.yoy.den # 0
        /\ IF Cardinality(YearsPresent) < 2 THEN kpi.yoy.num = 0
           ELSE LET y1 == CHOOSE y \in YearsPresent : \A z \in YearsPresent : z <= y
                    y0 == CHOOSE y \in YearsPresent \ {y1} :
                              \A z \in YearsPresent \ {y1} : z <= y
                    latest == YearSum("total_amount", y1)
                    previous == YearSum("total_amount", y0)
                IN IF previous > 0
                   THEN kpi.yoy.num * previous = (latest - previous) * 100 * kpi.yoy.den
                   ELSE kpi.yoy.num = 0

\* yearly sums 100 (2022) and 150 (2023) give 50
C17_Witness ==
    /\ pc = "kpi" /\ page = "Visualizations"
    /\ YearsPresent = {2022, 2023}
    /\ YearSum("total_amount", 2022) = 100 /\ YearSum("total_amount", 2023) = 150
    /\ kpi.yoy.num = 50 * kpi.yoy.den

\* The sum of column c over the rows of the first (least) year present.
FirstYearSum(c) ==
    YearSum(c, CHOOSE y \in YearsPresent : \A z \in YearsPresent : y <= z)

\* C18: the CAGR of the amount and of the transaction count is 0, and neither
\* an error nor a non-finite value, whenever fewer than 2 distinct years are
\* present or the first year's sum is not > 0.
C18_CagrDegradesToZero ==
    (pc \in {"kpi", "done", "raised"} /\ "cagr_amount" \in kpi.fields) =>
        /\ (Cardinality(YearsPresent) < 2 \/ FirstYearSum("total_amount") <= 0)
              => kpi.cagr_amount = ZeroRate
        /\ (Cardinality(YearsPresent) < 2 \/ FirstYearSum("number_of_transactions") <= 0)
              => kpi.cagr_count = ZeroRate

\* The (year, quarter) periods of filtered_df and the sum of a column over
\* the rows of one period.
PeriodsPresent ==
    {<<fdf.rows[i]["year"], fdf.rows[i]["quarter"]>> : i \in 1..Len(fdf.rows)}

Earlier(p, q) == p[1] < q[1] \/ (p[1] = q[1] /\ p[2] < q[2])

Latest(S) == CHOOSE p \in S : \A q \in S \ {p} : Earlier(q, p)

QuarterSum(c, p) ==
    SumSeq(SelectSeq(fdf.rows, LAMBDA r : r["year"] = p[1] /\ r["quarter"] = p[2]), c)

\* C19: quarter-over-quarter growth is 0 with fewer than 2 distinct (year,
\* quarter) periods; with 2 or more it is (latest - previous) / previous * 100
\* over the sums of the last two periods in ascending (year, quarter) order
\* when previous > 0, and 0 otherwise.
C19_QoQ ==
    (pc \in {"kpi", "done", "raised"} /\ "qoq" \in kpi.fields) =>
        /\ kpi.qoq.den # 0
        /\ IF Cardinality(PeriodsPresent) < 2 THEN kpi.qoq.num = 0
           ELSE LET p1 == Latest(PeriodsPresent)
                    p0 == Latest(PeriodsPresent \ {p1})
                    latest == QuarterSum("total_amount", p1)
                    previous == QuarterSum("total_amount", p0)
                IN IF previous > 0
                   THEN kpi.qoq.num * previous = (latest - previous) * 100 * kpi.qoq.den
                   ELSE kpi.qoq.num = 0

\* year before quarter: 2021-Q2 (150) comes before 2022-Q1 (100)
C19_Witness ==
    /\ pc = "kpi" /\ page = "Visualizations"
    /\ PeriodsPresent = {<<2021, 2>>, <<2022, 1>>}
    /\ QuarterSum("total_amount", <<2021, 2>>) = 150
    /\ QuarterSum("total_amount", <<2022, 1>>) = 100
    /\ kpi.qoq.num * 3 = (0 - 100) * kpi.qoq.den

\* The tables that have the rows of d in another order.
Reordered(d) ==
    {[d EXCEPT !.rows = [i \in 1..Len(d.rows) |-> d.rows[f[i]]]] :
        f \in {g \in [1..Len(d.rows) -> 1..Len(d.rows)] :
                 \A i, j \in 1..Len(d.rows) : g[i] = g[j] => i = j}}

\* What the widgets of this run return on table d: the selection the user
\* made, or, when the user touched no widget, the defaults built from d.
SelectionOn(d) ==
    IF sel.explicit \/ ~FilterShown(page, toggle) THEN sel ELSE Defaults(page, d)

\* C20: a table with the same rows in another order gives the same KPIs
\* (totals, average, top entity also on a tie, YoY, QoQ, CAGR) when the page
\* runs on it with the same use of the widgets, and the same default year and
\* quarter selection sets.
C20_RowOrderInvariant ==
    /\ (pc \in {"kpi", "done", "raised"} /\ kpi.fields # {}) =>
          \A d \in Reordered(df) :
              Kpi(page, tab, ApplyFilter(page, d, toggle, SelectionOn(d))) = kpi
    /\ (pc \in {"loaded", "filtered"} /\ "year" \in df.cols) =>
          \A d \in Reordered(df) :
              /\ DefaultYears(page, d) = DefaultYears(page, df)
              /\ Defaults(page, d).quarters = Defaults(page, df).quarters

(***************************************************************************)
(* Properties of the formatters (SpecFormat).                              *)
(***************************************************************************)
\* The band the claim assigns to value: the divisor and the suffix.
BandText ==
    IF value >= E9 THEN Fixed2(value, E9) \o <<"B">>
    ELSE IF value >= E7 THEN Fixed2(value, E7) \o <<"C", "r">>
    ELSE Fixed2(value, E5) \o <<"L">>

\* C21: with their default arguments, format_currency and format_number
\* divide every value >= 1e9 by 1e9 and append B, every value in [1e7, 1e9)
\* by 1e7 and append Cr, every value in [1e5, 1e7) by 1e5 and append L;
\* format_currency puts the currency sign first, format_number does not.
C21_Bands ==
    value >= E5 =>
        /\ shown["format_number"] # <<>> => shown["format_number"] = BandText
        /\ shown["format_currency"] # <<>> =>
               shown["format_currency"] = <<Rupee>> \o BandText

C23_OnePolicy ==
    /\ (shown["format_currency"] # <<>> /\ shown["visual_format_currency"] # <<>>) =>
           shown["visual_format_currency"] = shown["format_currency"]
    /\ (shown["format_number"] # <<>> /\ shown["visual_format_number"] # <<>>) =>
           shown["visual_format_number"] = shown["format_number"]


(***************************************************************************)
(* Properties of the state-wise breakdown of District Drill (SpecPage).    *)
(***************************************************************************)
\* C24: in the state-wise breakdown of District Drill the number of display
\* labels equals the number of aggregated columns, for every value column,
\* the count column itself included.
C24_LabelsMatchColumns ==
    (page = "District_Drill" /\ state_agg.columns # <<>>) =>
        /\ Len(state_agg.cols) = Len(state_agg.columns)
        /\ err # "ValueError"

\* The position of a display label in cols, 0 when it is not there.
LabelAt(l) ==
    IF \E i \in 1..Len(state_agg.cols) : state_agg.cols[i] = l
    THEN CHOOSE i \in 1..Len(state_agg.cols) : state_agg.cols[i] = l
    ELSE 0

StateRows(k) == SelectSeq(fdf.rows, LAMBDA r : r["state"] = k)

\* C28: in the state-wise table of District Drill, the column labelled
\* 'Transaction Count' holds the per-state sum of the count column and the
\* column labelled '<Entity> Count' holds the per-state number of distinct
\* entity names, with and without a count column.
C28_LabelledColumns ==
    (page = "District_Drill" /\ state_agg.columns # <<>>
       /\ Len(state_agg.cols) = Len(state_agg.columns)) =>
        \A i \in 1..Len(state_agg.rows) :
            LET row == state_agg.rows[i]
                rs == StateRows(row[1])
            IN /\ LabelAt("Transaction Count") # 0 =>
                      row[LabelAt("Transaction Count")] = SumSeq(rs, "count")
               /\ row[LabelAt(EntityCountLabel(sel.entity))] =
                      Cardinality({rs[j]["entity_name"] : j \in 1..Len(rs)})


(***************************************************************************)
(* Properties of the queries and of the dataset of a page run.             *)
(***************************************************************************)
\* C25: no step of a page run changes the store, and every query a page
\* hands to the loader is 'SELECT * FROM <table>' for a table of the fixed
\* lookup tables of the code, never text the user entered.
C25_ReadOnly ==
    [][/\ store' = store
       /\ chosen'.found => chosen'.q.tbl \in TableNames
       /\ \A q \in DOMAIN fetchLog' : fetchLog'[q].has => q.tbl \in TableNames]_vars

C25_Witness ==
    /\ pc = "done"
    /\ HasResolver(page) /\ chosen.found
    /\ calls.queries >= 1
    /\ fetchLog[chosen.q].has /\ fetchLog[chosen.q].ok
    /\ store.rows # <<>>

\* C26: a cache entry of load_data_cached is created only by a successful
\* store query; the load_data_cached(q) call that follows a failed store
\* query of q executes the store query again.
C26_FailureNotCached ==
    [][/\ \A e \in cache' :
             e.fn = <<"config", "load_data_cached">> =>
                 (fetchLog'[e.key].has /\ fetchLog'[e.key].ok)
       /\ (last'.bit # last.bit /\ last'.fn = "load_data_cached"
             /\ fetchLog[last'.q].has /\ ~fetchLog[last'.q].ok) =>
              last'.queries = 1]_vars

\* C27: on District Drill the table that is filtered and summarized is the
\* table of the selected analysis type: under 'Users' it has the columns of
\* top_user_state, under 'Insurance' it is what the store query of
\* top_insurance_state returned; transaction rows never stand in for an
\* empty insurance or user table.
C27_DatasetOfType ==
    (page = "District_Drill" /\ pc \in {"loaded", "filtered", "kpi", "done", "raised"}) =>
        /\ tab = "Users" =>
               (df.cols = Schema("top_user_state")
                  /\ fetchLog[Query("top_user_state", FALSE)].ok)
        /\ tab = "Insurance" => fetchLog[Query("top_insurance_state", FALSE)].ok

\* C29: the Top Charts KPIs are computed over rows of one entity type, with
\* the filter toggle on and with it off.
C29_SingleEntityType ==
    (page = "Top_Charts" /\ kpi.fields # {} /\ "entity_type" \in fdf.cols) =>
        Cardinality(ColVals(fdf, "entity_type")) <= 1

\* The options of the tab selector of a page.
TabsOf(pg) ==
    CASE pg = "Plotting" -> PlottingTabs
      [] pg = "Mapping" -> MappingTabs
      [] pg = "Top_Charts" -> TopChartsTabs
      [] OTHER -> {}

\* C30: for every option of the tab selectors of Plotting, Mapping and Top
\* Charts, select_the_table returns a dataset, and the request does not halt
\* on 'Please select a valid data category.'
C30_OfferedResolves ==
    (HasResolver(page) /\ tab \in TabsOf(page) /\ pc # "start") =>
        /\ chosen.found
        /\ chosen.q.tbl \in TableNames
        /\ "Please select a valid data category." \notin msgs

C30_Witness ==
    /\ page = "Top_Charts" /\ tab = "Statewise User"
    /\ pc = "resolved"
    /\ chosen = Found(Query("top_user_state", TRUE))
====
